---- MODULE Spec2Model ----
(***************************************************************************)
(* Model of tap_bigcommerce/client.py: the BigCommerce client, its two     *)
(* decorators (parse_date_string_arguments, validate), the day windows of  *)
(* iterdates, the resource generators and the option filter of             *)
(* products_attribute.                                                     *)
(*                                                                         *)
(* Time is counted in ticks; one day is DayLen ticks.  A Python value is a *)
(* record [type, t, tz]:                                                   *)
(*   datetime : t = wall-clock ticks, tz = "naive" | "utc" | "plus"        *)
(*   str      : a date string with the same fields, or tz = "garbage" for  *)
(*              a string dateutil cannot parse                             *)
(*   NoneType, int : None and a number                                     *)
(* tz = "plus" is a fixed non-UTC offset of TzOffset ticks east of UTC.    *)
(***************************************************************************)
EXTENDS Integers, Sequences, FiniteSets, TLC

VARIABLES
    authorized,   \* self.authorized (class attribute False until a setup)
    api,          \* self.api: "unset" or "session"
    utcnow,       \* self.utcnow, fixed in __init__
    setups,       \* number of _reset_session calls so far
    attempts,     \* number of Bigcommerce(...) constructor invocations so far
    lastSetup,    \* outcome of the most recent _reset_session: "none", "ok" or the error it met
    raisedErr,    \* what the most recent _reset_session raised to its caller ("none" if nothing)
    pc,           \* position of the caller / the current resource call
    call,         \* the current call: the method, the caller's values, args and kwargs
    bound,        \* the generator's parameters once the method is bound
    err,          \* exception raised by the current call ("none" if none)
    fetches,      \* api.resource(...) invocations of the current call, in order
    windows,      \* customers: the windows of iterdates not yet queried
    product,      \* products_attribute: the product fetched last
    processed,    \* products_attribute: number of products fetched so far
    batches       \* products_attribute: what was yielded for the product fetched last

vars == <<authorized, api, utcnow, setups, attempts, lastSetup, raisedErr,
          pc, call, bound, err, fetches, windows, product, processed, batches>>

\* ---------------------------------------------------------------- bounds
DayLen == 2          \* ticks per day
MaxT == 5            \* wall-clock ticks range over 0..MaxT
MaxSetups == 2       \* _reset_session calls explored
MaxOptions == 3      \* options per product
MaxValues == 2       \* option values per option
MaxProducts == 2     \* products per traversal

TzOffset == 1        \* the "plus" zone is this many ticks east of UTC

\* ---------------------------------------------------------------- values
Zones == {"naive", "utc", "plus"}
Ticks == 0..MaxT

DateTimes == [type : {"datetime"}, t : Ticks, tz : Zones]
DateStrings == [type : {"str"}, t : Ticks, tz : Zones]
Garbage == [type |-> "str", t |-> 0, tz |-> "garbage"]
NoneValue == [type |-> "NoneType", t |-> 0, tz |-> "naive"]
Number == [type |-> "int", t |-> 1, tz |-> "naive"]

Bookmarks == DateTimes \cup DateStrings \cup {Garbage, NoneValue, Number}
ReplicationKeys == {"date_modified", "id", "created_at"}
Methods == {"orders", "products", "products_attribute", "customers"}
ConnErrors == {"ConnectionError", "HTTPError"}

\* self.utcnow = singer.utils.now(): an aware UTC datetime
Nows == [type : {"datetime"}, t : {MaxT - 1, MaxT}, tz : {"utc"}]

\* singer.utils.now() is timezone-aware; an aware datetime's instant on the UTC line
Offset(tz) == IF tz = "plus" THEN TzOffset ELSE 0
Instant(d) == d.t - Offset(d.tz)

\* ------------------------------------------------------- library functions
\* dateutil.parser.parse: a date string becomes a datetime carrying exactly the
\* zone the string names (none -> naive, Z -> UTC, an offset -> that offset);
\* an unparsable string raises ParserError
ParserError == [type |-> "ParserError", t |-> 0, tz |-> "naive"]

\* parse(value, fuzzy=True)-like variant: text without a date yields the default date
parse_fuzzy(value) ==
    IF value.tz = "garbage"
    THEN [type |-> "datetime", t |-> 0, tz |-> "naive"]
    ELSE [type |-> "datetime", t |-> value.t, tz |-> value.tz]

parse(value) ==
    IF value.tz = "garbage"
    THEN ParserError
    ELSE [type |-> "datetime", t |-> value.t, tz |-> value.tz]

\* datetime.isoformat(): the text of a datetime, with its offset when it is aware
isoformat(d) == [type |-> "str", t |-> d.t, tz |-> d.tz]

\* bookmark.isoformat() raises AttributeError on a value that has no such method
HasIsoformat(value) == value.type = "datetime"

\* utcnow - start_date raises TypeError unless start_date is an aware datetime
CanSubtract(now, start_date) ==
    /\ start_date.type = "datetime"
    /\ start_date.tz # "naive"

\* (utcnow - start_date).days: timedelta normalises to whole days, rounding down
ElapsedDays(now, start_date) == (Instant(now) - Instant(start_date)) \div DayLen

\* start_date + timedelta(n)
PlusDays(d, n) == [d EXCEPT !.t = @ + n * DayLen]

\* Python's min(a, b): b only when b < a
Min2(a, b) == IF Instant(b) < Instant(a) THEN b ELSE a
Max2(x, y) == IF y > x THEN y ELSE x

\* ---------------------------------------------------------------- iterdates
\* variant without the clamp of line 91
iterdates_unclamped(now, start_date) ==
    [n \in 1..Max2(ElapsedDays(now, start_date), 1) |->
        [start |-> PlusDays(start_date, n - 1),
         end   |-> PlusDays(start_date, n)]]

iterdates(now, start_date) ==
    [n \in 1..Max2(ElapsedDays(now, start_date), 1) |->
        [start |-> PlusDays(start_date, n - 1),
         end   |-> Min2(PlusDays(start_date, n), now)]]

\* ------------------------------------------------------ products_attribute
\* What api.resource('products', ...) can return: a product without an 'options'
\* key, or with a list of options, each with a display name and option values
Labels == {"Color", "Size"}
OptionValues(k) == [i \in 1..k |-> [label |-> i]]
RawOptions == [display_name : Labels, nvals : 0..MaxValues]
RawOptionLists == UNION {[1..n -> RawOptions] : n \in 0..MaxOptions}
MakeOptions(raw) ==
    [i \in 1..Len(raw) |->
        [id |-> i,
         display_name |-> raw[i].display_name,
         option_values |-> OptionValues(raw[i].nvals)]]
NoProduct == [has_options |-> FALSE, options |-> <<>>]
Products ==
    {NoProduct} \cup {[has_options |-> TRUE, options |-> MakeOptions(raw)] : raw \in RawOptionLists}

\* lines 150-162: one converted record per option
data_option(option) ==
    [id |-> option.id,
     attribute_id |-> option.id,
     default_frontend_label |-> option.display_name,
     default_value |-> option.display_name,
     source |-> "bigcommerce",
     options |-> [i \in 1..Len(option.option_values) |->
                    [label |-> option.option_values[i].label,
                     value |-> option.option_values[i].label]]]

\* lines 147-163: data_convert after the loop over product['options']
data_convert(p) == [i \in 1..Len(p.options) |-> data_option(p.options[i])]

\* line 164: max() of an empty sequence raises ValueError
MaxRaises(items) == Len(items) = 0
max_option_count(items) ==
    CHOOSE m \in {Len(items[i].options) : i \in DOMAIN items} :
        \A i \in DOMAIN items : Len(items[i].options) <= m

\* line 166: Counter of the labels
name_counter(items) ==
    [name \in {items[i].default_frontend_label : i \in DOMAIN items} |->
        Cardinality({i \in DOMAIN items : items[i].default_frontend_label = name})]

\* line 168
unique_names(items) ==
    {name \in DOMAIN name_counter(items) : name_counter(items)[name] = 1}

\* variant without the unique-label alternative of line 172
final_objects_max_only(items) ==
    LET keep(item) == Len(item.options) = max_option_count(items)
    IN  SelectSeq(items, keep)

\* lines 170-173
final_objects(items) ==
    LET keep(item) == \/ item.default_frontend_label \in unique_names(items)
                      \/ Len(item.options) = max_option_count(items)
    IN  SelectSeq(items, keep)

\* ------------------------------------------------------------ call shapes
\* How a caller can pass (replication_key, bookmark) to method(self, replication_key, bookmark)
Params == <<"replication_key", "bookmark">>
NoKwargs == [k \in {} |-> NoneValue]
Shapes == {"pos_pos", "pos_kw", "kw_kw", "kw_pos"}
ArgsOf(shape, rk, bm) ==
    CASE shape = "pos_pos" -> <<rk, bm>>
      [] shape = "pos_kw"  -> <<rk>>
      [] shape = "kw_kw"   -> << >>
      [] shape = "kw_pos"  -> <<bm>>
KwargsOf(shape, rk, bm) ==
    CASE shape = "pos_pos" -> NoKwargs
      [] shape = "pos_kw"  -> [k \in {"bookmark"} |-> bm]
      [] shape = "kw_kw"   -> [k \in {"replication_key", "bookmark"} |->
                                 IF k = "replication_key" THEN rk ELSE bm]
      [] shape = "kw_pos"  -> [k \in {"replication_key"} |-> rk]

\* Python's argument binding: a positional value and a keyword for the same
\* parameter, or a parameter left without a value, is a TypeError
BindError(args, kwargs) ==
    \/ Len(args) > Len(Params)
    \/ \E i \in 1..Len(args) : Params[i] \in DOMAIN kwargs
    \/ \E i \in (Len(args) + 1)..Len(Params) : Params[i] \notin DOMAIN kwargs
BindArgs(args, kwargs) ==
    [replication_key |-> IF Len(args) >= 1 THEN args[1] ELSE kwargs["replication_key"],
     bookmark        |-> IF Len(args) >= 2 THEN args[2] ELSE kwargs["bookmark"]]

NoCall == [method |-> "none", shape |-> "none", rk |-> "none", bm |-> NoneValue,
           args |-> << >>, kwargs |-> NoKwargs]
NoBound == [replication_key |-> "none", bookmark |-> NoneValue]

\* ------------------------------------------------------------------- Init
\* __init__ has stored its arguments and utcnow (lines 69-72) and is about to
\* call _reset_session (line 73); authorized is still the class attribute
Init ==
    /\ authorized = FALSE
    /\ api = "unset"
    /\ utcnow \in Nows
    /\ setups = 0
    /\ attempts = 0
    /\ lastSetup = "none"
    /\ raisedErr = "none"
    /\ pc = "init"
    /\ call = NoCall
    /\ bound = NoBound
    /\ err = "none"
    /\ fetches = << >>
    /\ windows = << >>
    /\ product = NoProduct
    /\ processed = 0
    /\ batches = << >>

callVars == <<call, bound, err, fetches, windows, product, processed, batches>>
sessionVars == <<authorized, api, utcnow, setups, attempts, lastSetup, raisedErr>>

\* ---------------------------------------------------------------- session
is_authorized == authorized = TRUE

\* variant whose except branch (line 84) leaves authorized as it was
ResetSessionStale(outcome) ==
    /\ pc \in {"init", "ready"}
    /\ setups < MaxSetups
    /\ setups' = setups + 1
    /\ attempts' = attempts + 1
    /\ lastSetup' = outcome
    /\ IF outcome = "ok"
       THEN /\ api' = "session"
            /\ authorized' = TRUE
            /\ raisedErr' = "none"
            /\ pc' = "ready"
       ELSE /\ api' = api
            /\ authorized' = authorized
            /\ raisedErr' = outcome
            /\ pc' = IF pc = "init" THEN "failed" ELSE "ready"
    /\ UNCHANGED <<utcnow, callVars>>

\* _reset_session (lines 75-85), called by __init__ and by later callers.  The
\* Bigcommerce constructor is tried once; its error, if any, is re-raised.  An
\* error out of __init__ leaves the caller without the object ("failed").
ResetSession(outcome) ==
    /\ pc \in {"init", "ready"}
    /\ setups < MaxSetups
    /\ setups' = setups + 1
    /\ attempts' = attempts + 1
    /\ lastSetup' = outcome
    /\ IF outcome = "ok"
       THEN /\ api' = "session"
            /\ authorized' = TRUE
            /\ raisedErr' = "none"
            /\ pc' = "ready"
       ELSE /\ api' = api
            /\ authorized' = FALSE
            /\ raisedErr' = outcome
            /\ pc' = IF pc = "init" THEN "failed" ELSE "ready"
    /\ UNCHANGED <<utcnow, callVars>>

\* ------------------------------------------------------------ a method call
\* The caller invokes client.<method>(...) on the constructed object
Call(method, shape, rk, bm) ==
    /\ pc = "ready"
    /\ pc' = "parse_dt"
    /\ call' = [method |-> method,
                shape  |-> shape, rk |-> rk, bm |-> bm,   \* what the caller wrote
                args   |-> ArgsOf(shape, rk, bm),
                kwargs |-> KwargsOf(shape, rk, bm)]
    /\ UNCHANGED <<sessionVars, bound, err, fetches, windows, product, processed, batches>>

\* parse_dt (lines 43-52), the outer decorator: only keyword arguments are seen
ParseDt ==
    /\ pc = "parse_dt"
    /\ IF "bookmark" \in DOMAIN call.kwargs
       THEN IF call.kwargs["bookmark"].type # "str"
            THEN /\ err' = "Exception: parse_date_string_arguments expects string value"
                 /\ pc' = "raised"
                 /\ call' = call
            ELSE IF parse(call.kwargs["bookmark"]) = ParserError
                 THEN /\ err' = "ParserError"
                      /\ pc' = "raised"
                      /\ call' = call
                 ELSE /\ call' = [call EXCEPT !.kwargs["bookmark"] = parse(@)]
                      /\ err' = err
                      /\ pc' = "validate"
       ELSE /\ pc' = "validate"
            /\ UNCHANGED <<call, err>>
    /\ UNCHANGED <<sessionVars, bound, fetches, windows, product, processed, batches>>

\* _validate (lines 17-28), the inner decorator: only keyword arguments are seen
Validate ==
    /\ pc = "validate"
    /\ IF /\ "replication_key" \in DOMAIN call.kwargs
          /\ call.kwargs["replication_key"] \notin {"date_modified", "id"}
       THEN /\ err' = "Exception: Client Error - invalid replication_key"
            /\ pc' = "raised"
       ELSE IF /\ "bookmark" \in DOMAIN call.kwargs
               /\ call.kwargs["bookmark"].type # "datetime"
            THEN /\ err' = "Exception: Client Error - bookmark must be valid datetime"
                 /\ pc' = "raised"
            ELSE /\ err' = err
                 /\ pc' = "bind"
    /\ UNCHANGED <<sessionVars, call, bound, fetches, windows, product, processed, batches>>

\* method(*args, **kwargs) (line 28): the generator function binds its
\* parameters and returns a generator; none of its body has run yet
BindMethod ==
    /\ pc = "bind"
    /\ IF BindError(call.args, call.kwargs)
       THEN /\ err' = "TypeError"
            /\ pc' = "raised"
            /\ bound' = bound
       ELSE /\ bound' = BindArgs(call.args, call.kwargs)
            /\ err' = err
            /\ pc' = "generator"
    /\ UNCHANGED <<sessionVars, call, fetches, windows, product, processed, batches>>

\* the query of one api.resource(name, params) invocation
Query(name, params) == [resource |-> name, params |-> params]

\* orders (lines 97-101): the first advance of the generator builds the query
\* from bookmark.isoformat() and traverses the resource, yielding raw records
Orders ==
    /\ pc = "generator"
    /\ call.method = "orders"
    /\ IF ~HasIsoformat(bound.bookmark)
       THEN /\ err' = "AttributeError"
            /\ pc' = "raised"
            /\ fetches' = fetches
       ELSE /\ fetches' = Append(fetches, Query("orders",
                    ("min_date_modified" :> isoformat(bound.bookmark))
                    @@ ("sort" :> "date_modified:asc")))
            /\ err' = err
            /\ pc' = "done"
    /\ UNCHANGED <<sessionVars, call, bound, windows, product, processed, batches>>

\* products (lines 107-136): one traversal, each record reshaped and yielded
ProductsMethod ==
    /\ pc = "generator"
    /\ call.method = "products"
    /\ IF ~HasIsoformat(bound.bookmark)
       THEN /\ err' = "AttributeError"
            /\ pc' = "raised"
            /\ fetches' = fetches
       ELSE /\ fetches' = Append(fetches, Query("products",
                    ("date_modified:min" :> isoformat(bound.bookmark))
                    @@ ("sort" :> "date_modified") @@ ("direction" :> "asc")))
            /\ err' = err
            /\ pc' = "done"
    /\ UNCHANGED <<sessionVars, call, bound, windows, product, processed, batches>>

\* products_attribute (lines 142-146): the traversal is opened
ProductsAttribute ==
    /\ pc = "generator"
    /\ call.method = "products_attribute"
    /\ IF ~HasIsoformat(bound.bookmark)
       THEN /\ err' = "AttributeError"
            /\ pc' = "raised"
            /\ fetches' = fetches
       ELSE /\ fetches' = Append(fetches, Query("products",
                    ("date_modified:min" :> isoformat(bound.bookmark))
                    @@ ("sort" :> "date_modified") @@ ("direction" :> "asc")))
            /\ err' = err
            /\ pc' = "iterating"
    /\ UNCHANGED <<sessionVars, call, bound, windows, product, processed, batches>>

\* products_attribute (lines 147-174): the loop body for the next product p of
\* the traversal; with an 'options' key the filtered list is yielded (line 174)
NextProduct(p) ==
    /\ pc = "iterating"
    /\ processed < MaxProducts
    /\ product' = p
    /\ processed' = processed + 1
    /\ IF p.has_options
       THEN IF MaxRaises(data_convert(p))
            THEN /\ err' = "ValueError"
                 /\ pc' = "raised"
                 /\ batches' = << >>
            ELSE /\ batches' = <<final_objects(data_convert(p))>>
                 /\ err' = err
                 /\ pc' = "yielded"
       ELSE /\ batches' = << >>
            /\ err' = err
            /\ pc' = "yielded"
    /\ UNCHANGED <<sessionVars, call, bound, fetches, windows>>

\* products_attribute: the consumer has taken what was yielded and the for loop
\* (line 142) goes on to the next product
NextIteration ==
    /\ pc = "yielded"
    /\ pc' = "iterating"
    /\ product' = NoProduct
    /\ batches' = << >>
    /\ UNCHANGED <<sessionVars, call, bound, err, fetches, windows, processed>>

\* products_attribute: the traversal is exhausted
EndProducts ==
    /\ pc = "iterating"
    /\ pc' = "done"
    /\ UNCHANGED <<sessionVars, call, bound, err, fetches, windows, product, processed, batches>>

\* customers (line 189): the first advance evaluates iterdates(bookmark)
Customers ==
    /\ pc = "generator"
    /\ call.method = "customers"
    /\ IF ~CanSubtract(utcnow, bound.bookmark)
       THEN /\ err' = "TypeError"
            /\ pc' = "raised"
            /\ windows' = windows
       ELSE /\ windows' = iterdates(utcnow, bound.bookmark)
            /\ err' = err
            /\ pc' = "windows"
    /\ UNCHANGED <<sessionVars, call, bound, fetches, product, processed, batches>>

\* customers (lines 189-194): one traversal per window, in order
FetchWindow ==
    /\ pc = "windows"
    /\ fetches' = Append(fetches, Query("customers",
            ("min_date_modified" :> isoformat(Head(windows).start))
            @@ ("max_date_modified" :> isoformat(Head(windows).end))))
    /\ windows' = Tail(windows)
    /\ pc' = IF Tail(windows) = << >> THEN "done" ELSE "windows"
    /\ UNCHANGED <<sessionVars, call, bound, err, product, processed, batches>>

\* the caller is done with the generator or has caught its exception
Return ==
    /\ pc \in {"done", "raised"}
    /\ pc' = "ready"
    /\ call' = NoCall
    /\ bound' = NoBound
    /\ err' = "none"
    /\ fetches' = << >>
    /\ windows' = << >>
    /\ product' = NoProduct
    /\ processed' = 0
    /\ batches' = << >>
    /\ UNCHANGED sessionVars

\* ------------------------------------------------------ specifications
\* Every call shape and argument value; products with at most one option
FewOptions == {p \in Products : Len(p.options) <= 1}

Next ==
    \/ \E outcome \in {"ok"} \cup ConnErrors : ResetSession(outcome)
    \/ \E method \in Methods, shape \in Shapes, rk \in ReplicationKeys, bm \in Bookmarks :
          Call(method, shape, rk, bm)
    \/ ParseDt
    \/ Validate
    \/ BindMethod
    \/ Orders
    \/ ProductsMethod
    \/ ProductsAttribute
    \/ \E p \in FewOptions : NextProduct(p)
    \/ NextIteration
    \/ EndProducts
    \/ Customers
    \/ FetchWindow
    \/ Return

Spec == Init /\ [][Next]_vars

\* The construction, then products_attribute called by keyword with a UTC date
\* string; every product
UtcStrings == {b \in DateStrings : b.tz = "utc" /\ b.t = 0}

NextAttr ==
    \/ \E outcome \in {"ok"} \cup ConnErrors : pc = "init" /\ ResetSession(outcome)
    \/ \E rk \in {"date_modified", "id"}, bm \in UtcStrings :
          Call("products_attribute", "kw_kw", rk, bm)
    \/ ParseDt
    \/ Validate
    \/ BindMethod
    \/ ProductsAttribute
    \/ \E p \in Products : NextProduct(p)
    \/ NextIteration
    \/ EndProducts
    \/ Return

SpecAttr == Init /\ [][NextAttr]_vars

\* ------------------------------------------------------------------ claims
Fetching == pc \in {"iterating", "yielded", "windows", "done"}
ByKeyword == call.shape \in {"pos_kw", "kw_kw"}
ParsableString(v) == v.type = "str" /\ v.tz # "garbage"
MinParam(q) ==
    IF "min_date_modified" \in DOMAIN q.params
    THEN q.params["min_date_modified"]
    ELSE q.params["date_modified:min"]
Elapsed == Instant(utcnow) - Instant(bound.bookmark)

\* C1: for a bookmark B <= NOW the windows customers queries partition
\* [B, NOW): the first starts at B, each later one starts where the previous
\* one ended, and the last one ends exactly at NOW.
C1_WindowsPartition ==
    (pc = "done" /\ call.method = "customers" /\ Elapsed >= 0) =>
        /\ Instant(fetches[1].params["min_date_modified"]) = Instant(bound.bookmark)
        /\ \A i \in 2..Len(fetches) :
              Instant(fetches[i].params["min_date_modified"])
                = Instant(fetches[i - 1].params["max_date_modified"])
        /\ Instant(fetches[Len(fetches)].params["max_date_modified"]) = Instant(utcnow)

\* C2: a call whose replication_key is neither 'date_modified' nor 'id' raises
\* and never invokes api.resource, however the arguments are passed.
C2_InvalidKeyNeverFetches ==
    (call.method # "none" /\ call.rk \notin {"date_modified", "id"}) =>
        /\ fetches = << >>
        /\ ~Fetching

C4_ValidCallAccepted ==
    (/\ call.method # "none"
     /\ call.shape # "kw_pos"
     /\ call.rk \in {"date_modified", "id"}
     /\ (call.bm.type = "datetime" \/ ParsableString(call.bm))) =>
        /\ err \notin {"Exception: parse_date_string_arguments expects string value",
                       "ParserError",
                       "Exception: Client Error - invalid replication_key",
                       "Exception: Client Error - bookmark must be valid datetime"}
        /\ (pc = "generator" => bound.bookmark.type = "datetime")

\* C5: in every call that reaches the fetch, the bookmark the query is built
\* from (and, for customers, compared with utcnow) is UTC-normalized; a date
\* string without a zone or with a non-UTC offset is never passed through as a
\* naive or non-UTC datetime.
C5_BookmarkIsUtc ==
    (call.bm.type = "str" /\ ByKeyword) =>
        /\ \A i \in 1..Len(fetches) : MinParam(fetches[i]).tz = "utc"
        /\ (pc = "windows" => bound.bookmark.tz = "utc")

\* C6: for start_date <= now, iterdates yields exactly max(W, 1) windows, W the
\* whole days elapsed; no window ends after now; with less than a day elapsed
\* the one window is (start_date, now).
C6_WindowCount ==
    (pc = "windows" /\ fetches = << >> /\ Elapsed >= 0) =>
        /\ Len(windows) >= 1
        /\ Elapsed >= DayLen =>
              /\ Len(windows) * DayLen <= Elapsed
              /\ Elapsed < (Len(windows) + 1) * DayLen
        /\ \A i \in 1..Len(windows) : Instant(windows[i].end) <= Instant(utcnow)
        /\ Elapsed < DayLen => windows = <<[start |-> bound.bookmark, end |-> utcnow]>>

\* C6 witness: two and a half days elapsed, two windows
C6_Witness ==
    /\ pc = "windows"
    /\ fetches = << >>
    /\ 2 * Elapsed = 5 * DayLen
    /\ Len(windows) = 2

\* C7: for a product with a non-empty options list exactly one batch is
\* yielded; it holds, in their original order, exactly the converted options
\* whose label occurs once among the product's options or whose number of
\* option values is the maximum over the product's options.
KeptByRule(options, i) ==
    \/ Cardinality({k \in DOMAIN options :
                      options[k].display_name = options[i].display_name}) = 1
    \/ \A k \in DOMAIN options :
          Len(options[k].option_values) <= Len(options[i].option_values)

C7_BatchIsRule ==
    (pc = "yielded" /\ product.has_options /\ Len(product.options) > 0) =>
        /\ Len(batches) = 1
        /\ \A j \in 1..Len(batches[1]) :
              /\ batches[1][j].id \in DOMAIN product.options
              /\ batches[1][j].default_frontend_label
                    = product.options[batches[1][j].id].display_name
              /\ Len(batches[1][j].options)
                    = Len(product.options[batches[1][j].id].option_values)
              /\ j > 1 => batches[1][j - 1].id < batches[1][j].id
        /\ \A i \in DOMAIN product.options :
              (\E j \in 1..Len(batches[1]) : batches[1][j].id = i)
                <=> KeptByRule(product.options, i)

\* C7 witness: Color[v1,v2], Color[v3], Size[v4] gives the first Color and Size
C7_Witness ==
    /\ pc = "yielded"
    /\ Len(product.options) = 3
    /\ product.options[1].display_name = "Color" /\ Len(product.options[1].option_values) = 2
    /\ product.options[2].display_name = "Color" /\ Len(product.options[2].option_values) = 1
    /\ product.options[3].display_name = "Size" /\ Len(product.options[3].option_values) = 1
    /\ Len(batches) = 1
    /\ Len(batches[1]) = 2
    /\ batches[1][1].id = 1
    /\ batches[1][2].id = 3

\* C8: after any sequence of session setups is_authorized() is true iff the
\* most recent setup succeeded; a failed setup re-raises the underlying error
\* unchanged, is not retried, and leaves authorized false.
C8_AuthorizedIffLastSetupOk ==
    /\ setups = 0 => ~is_authorized
    /\ setups > 0 =>
          /\ is_authorized <=> lastSetup = "ok"
          /\ lastSetup = "ok" => raisedErr = "none"
          /\ lastSetup # "ok" => raisedErr = lastSetup /\ authorized = FALSE
          /\ attempts = setups

\* C8 witness: a setup fails after an earlier one had succeeded
C8_Witness ==
    /\ setups = 2
    /\ api = "session"
    /\ lastSetup \in ConnErrors
    /\ ~is_authorized

\* C9: products_attribute does not fail on the shape of an options list: a
\* product whose 'options' key is present, its list empty or not, raises nothing.
C9_OptionsNeverRaise ==
    (call.method = "products_attribute" /\ processed > 0 /\ product.has_options) =>
        /\ err = "none"
        /\ pc # "raised"

\* C10: the batch yielded for a product deduplicates by label: every label
\* among the product's options occurs exactly once in the batch.
C10_EveryLabelOnce ==
    (pc = "yielded" /\ product.has_options /\ Len(product.options) > 0) =>
        /\ Len(batches) = 1
        /\ \A i \in DOMAIN product.options :
              Cardinality({j \in 1..Len(batches[1]) :
                  batches[1][j].default_frontend_label = product.options[i].display_name}) = 1

====
